---- MODULE Spec2Model ----
(***************************************************************************)
(* GraSPipe embed package: MultipleASE (src/embed/mase.py) on top of       *)
(* BaseEmbed / BaseEmbedMulti (src/embed/base_mase.py), and a single-graph *)
(* embedder that derives from BaseEmbed alone.                             *)
(*                                                                         *)
(* A model object is the record `self` of its instance attributes; an      *)
(* attribute that was never assigned holds Unset and reading it raises     *)
(* AttributeError, as Python does.  Matrices are sequences of rows of      *)
(* naturals.  The graphs fed to the model are weighted partial             *)
(* permutation matrices (at most one non-zero entry per row and per        *)
(* column), for which the singular value decomposition is exact in         *)
(* integers: the left singular vectors are standard basis vectors.         *)
(***************************************************************************)
EXTENDS Integers, Sequences, FiniteSets, TLC

\* self: the class and the attributes of one embedder object.
\* call: the last call made on it: the method, its argument, the exception
\*       it raised, the value it returned, whether it ran a decomposition.
\* threads: the transform calls that run concurrently on the object, each
\*       with its position in the code and its local variables.
VARIABLES self, call, threads

vars == <<self, call, threads>>

\* ------------------------------------------------------------------------
\* Bounds of the exploration
\* ------------------------------------------------------------------------
\* Largest number of graphs in one input collection.
MaxGraphs == 2

\* ------------------------------------------------------------------------
\* Python values
\* ------------------------------------------------------------------------
\* Every Python value carries its type, so that any two can be compared.
\* An attribute that was never assigned.
Unset == [t |-> "unset"]

None == [t |-> "NoneType"]

PyInt(i) == [t |-> "int", i |-> i]

PyBool(b) == [t |-> "bool", b |-> b]

\* A 2-d array: a sequence of rows.
Array(M) == [t |-> "ndarray", m |-> M]

\* A 3-d array: a sequence of 2-d arrays.
Stack(Ms) == [t |-> "ndarray", g |-> Ms]

\* A 1-d array.
Vector(d) == [t |-> "ndarray", v |-> d]

Tuple(items) == [t |-> "tuple", items |-> items]

\* The model object itself, as `return self` hands it out.
SelfRef == [t |-> "self"]

\* No exception is pending.
NoExc == [t |-> "no exception"]

\* A raised exception: its class and the place that raised it.
Exc(type, site) == [t |-> "exception", type |-> type, site |-> site]

Min(a, b) == IF a <= b THEN a ELSE b

\* ------------------------------------------------------------------------
\* Dense matrices (numpy arrays of rank 2)
\* ------------------------------------------------------------------------
Rows(M) == Len(M)

Cols(M) == IF Len(M) = 0 THEN 0 ELSE Len(M[1])

\* The n x m matrix with entries e(i, j), as a sequence of rows.
Matrix(n, m, e(_, _)) == [i \in 1..n |-> [j \in 1..m |-> e(i, j)] \o <<>>] \o <<>>

Transpose(M) == LET e(j, i) == M[i][j] IN Matrix(Cols(M), Rows(M), e)

RECURSIVE SumSeq(_)
SumSeq(s) == IF s = <<>> THEN 0 ELSE s[1] + SumSeq(Tail(s))

\* A @ B for two matrices with Cols(A) = Rows(B).
MatMul(A, B) ==
    LET e(i, j) == SumSeq([k \in 1..Cols(A) |-> A[i][k] * B[k][j]])
    IN  Matrix(Rows(A), Cols(B), e)

\* M[:, :k]: a Python slice stops at the last column there is.
TakeCols(M, k) == [i \in 1..Rows(M) |-> SubSeq(M[i], 1, Min(k, Cols(M)))] \o <<>>

\* np.diag(d)
Diag(d) == LET e(i, j) == IF i = j THEN d[i] ELSE 0 IN Matrix(Len(d), Len(d), e)

RECURSIVE ConcatRow(_, _)
ConcatRow(Ms, i) == IF Ms = <<>> THEN <<>> ELSE Ms[1][i] \o ConcatRow(Tail(Ms), i)

\* np.hstack(Ms) needs the same number of rows in every block.
HStackOk(Ms) == \A k \in 1..Len(Ms) : Rows(Ms[k]) = Rows(Ms[1])

HStack(Ms) == [i \in 1..Rows(Ms[1]) |-> ConcatRow(Ms, i)] \o <<>>

\* np.sqrt on the perfect squares the graphs below are weighted with.
Sqrt(x) == CHOOSE r \in 0..x : r * r = x

\* np.diag(np.sqrt(D))
SqrtDiag(D) == Diag([k \in 1..Len(D) |-> Sqrt(D[k])] \o <<>>)

\* int(np.ceil(np.log2(n))), n >= 1
RECURSIVE CeilLog2From(_, _, _)
CeilLog2From(n, k, p) == IF p >= n THEN k ELSE CeilLog2From(n, k + 1, 2 * p)

CeilLog2(n) == CeilLog2From(n, 0, 1)

\* ------------------------------------------------------------------------
\* Collaborators outside src/: embed/svd.py and utils.py
\* ------------------------------------------------------------------------
\* utils.is_almost_symmetric: the matrix equals its transpose up to a small
\* tolerance; on integer entries that is equality.
is_almost_symmetric(X) == X = Transpose(X)

\* utils.import_graph on a dense array returns the array.
import_graph(g) == g

RowNormSq(X, i) == SumSeq([j \in 1..Cols(X) |-> X[i][j] * X[i][j]])

\* The rows of X ordered by descending norm, ties by index.
SvdOrder(X) ==
    LET n == Rows(X)
        norm == [i \in 1..n |-> RowNormSq(X, i)] \o <<>>
        before(i) == {j \in 1..n : norm[j] > norm[i] \/ (norm[j] = norm[i] /\ j < i)}
    IN  [k \in 1..n |-> CHOOSE i \in 1..n : Cardinality(before(i)) = k - 1] \o <<>>

\* svd.selectSVD: the rank is n_components when given, else the dimension
\* the selector picked in a spectrum of the default length ceil(log2(min
\* shape)).
SvdRank(X, n_components, elbow) ==
    IF n_components = None
    THEN Min(elbow, CeilLog2(Min(Rows(X), Cols(X))))
    ELSE n_components.i

\* svd.selectSVD rejects a rank outside 1..min(X.shape).
SvdFails(X, r) == r < 1 \/ r > Min(Rows(X), Cols(X))

\* Left singular vectors of a matrix whose rows have disjoint supports:
\* X X^T is diagonal, so they are the standard basis vectors of the rows,
\* in the order of descending row norm.
selectSVD_U(X, r) ==
    LET ord == SvdOrder(X)
        e(i, k) == IF ord[k] = i THEN 1 ELSE 0
    IN  Matrix(Rows(X), r, e)

\* Singular values, descending (exact when each row holds one entry).
selectSVD_D(X, r) ==
    LET ord == SvdOrder(X)
    IN  [k \in 1..r |-> Sqrt(RowNormSq(X, ord[k]))] \o <<>>

\* Right singular vectors, as rows (V^T), when each row holds one entry.
selectSVD_Vt(X, r) ==
    LET ord == SvdOrder(X)
        e(k, j) == IF X[ord[k]][j] # 0 THEN 1 ELSE 0
    IN  Matrix(r, Cols(X), e)

\* svd.select_dimension: the last elbow lies among the positions 1..L of
\* the spectrum it is given; which one is left open.
LastElbow(D, elbow) == Min(elbow, Len(D))

\* ------------------------------------------------------------------------
\* Inputs
\* ------------------------------------------------------------------------
\* Weighted partial permutation matrices on 2 and 3 vertices.
S1 == << <<4, 0>>, <<0, 1>> >>
S2 == << <<1, 0>>, <<0, 4>> >>
A1 == << <<0, 4>>, <<1, 0>> >>
S3 == << <<9, 0, 0>>, <<0, 4, 0>>, <<0, 0, 1>> >>
A3 == << <<0, 9, 0>>, <<0, 0, 4>>, <<1, 0, 0>> >>

GraphPool == {S1, S2, A1, S3, A3}

\* The largest vertex count among them.
MaxVertices ==
    CHOOSE n \in {Rows(g) : g \in GraphPool} : \A g \in GraphPool : Rows(g) <= n

SeqsUpTo(S, n) == UNION {[1..k -> S] : k \in 0..n}

Arg(kind, ndim, elems) == [kind |-> kind, ndim |-> ndim, elems |-> elems]

\* What a caller may pass as `graphs`: a list or tuple of arrays, an
\* ndarray of any rank (rank 3: a stack of equal-sized graphs), or some
\* other object.
ListInputs == {Arg("list", 1, gs) : gs \in SeqsUpTo({S1, A1, S3}, MaxGraphs)}

TupleInputs == {Arg("tuple", 1, gs) : gs \in SeqsUpTo({S2}, MaxGraphs)}

ArrayInputs ==
    {Arg("ndarray", 3, gs) : gs \in SeqsUpTo({A3}, MaxGraphs)}
    \cup {Arg("ndarray", 2, <<>>), Arg("ndarray", 4, <<>>)}

OtherInputs == {Arg("dict", 0, <<>>)}

Inputs == ListInputs \cup TupleInputs \cup ArrayInputs \cup OtherInputs

\* What a caller may pass as `graph` to an embedder of one graph.
GraphInputs == {Arg("ndarray", 2, <<g>>) : g \in GraphPool}

\* ------------------------------------------------------------------------
\* BaseEmbedMulti._check_input_graphs
\* ------------------------------------------------------------------------
\* A validation that lets a single graph through (`< 1` for `<= 1`).
_check_input_graphs_lets_one_through(s, graphs) ==
    LET raise(type) ==
            [self |-> s, raised |-> Exc(type, "_check_input_graphs"), out |-> graphs]
        save(out) ==
            [self |-> [s EXCEPT !.n_graphs_ = PyInt(Len(out.elems)),
                                !.n_vertices_ = PyInt(Rows(out.elems[1]))],
             raised |-> NoExc,
             out |-> out]
        imported == [k \in 1..Len(graphs.elems) |-> import_graph(graphs.elems[k])]
    IN  IF graphs.kind \in {"list", "tuple"}
        THEN IF Len(graphs.elems) < 1
             THEN raise("ValueError")
             ELSE save(Arg("list", 1, imported))
        ELSE IF graphs.kind = "ndarray"
        THEN IF graphs.ndim # 3
             THEN raise("ValueError")
             ELSE IF Len(graphs.elems) < 1
             THEN raise("ValueError")
             ELSE save(Arg("ndarray", 3, imported))
        ELSE raise("TypeError")

\* Result: the model after the call, the exception raised (or NoExc) and
\* the converted collection `out`.
_check_input_graphs(s, graphs) ==
    LET raise(type) ==
            [self |-> s, raised |-> Exc(type, "_check_input_graphs"), out |-> graphs]
        save(out) ==
            [self |-> [s EXCEPT !.n_graphs_ = PyInt(Len(out.elems)),
                                !.n_vertices_ = PyInt(Rows(out.elems[1]))],
             raised |-> NoExc,
             out |-> out]
        imported == [k \in 1..Len(graphs.elems) |-> import_graph(graphs.elems[k])]
    IN  IF graphs.kind \in {"list", "tuple"}
        THEN IF Len(graphs.elems) <= 1
             THEN raise("ValueError")
             ELSE save(Arg("list", 1, imported))
        ELSE IF graphs.kind = "ndarray"
        THEN IF graphs.ndim # 3
             THEN raise("ValueError")
             ELSE IF Len(graphs.elems) <= 1
             THEN raise("ValueError")
             ELSE save(Arg("ndarray", 3, imported))
        ELSE raise("TypeError")

\* ------------------------------------------------------------------------
\* MultipleASE._reduce_dim
\* ------------------------------------------------------------------------
\* What the dimension selector answers during one fit: the last elbow of
\* each graph's first-stage spectrum and the rank of each second-stage SVD.
\* It is consulted only when n_components is None.
Selection(first, left, right) == [first |-> first, left |-> left, right |-> right]

\* Result of _reduce_dim: the exception raised (or NoExc), Uhat, Vhat, and
\* whether a decomposition was run.
Reduced(raised, Uhat, Vhat, svd) ==
    [raised |-> raised, Uhat |-> Uhat, Vhat |-> Vhat, svd |-> svd]

\* lines 114-123: one (U, D, V) per graph.
Embeddings(graphs, n_components) ==
    [k \in 1..Len(graphs) |->
        [U |-> selectSVD_U(graphs[k], n_components),
         D |-> selectSVD_D(graphs[k], n_components),
         Vt |-> selectSVD_Vt(graphs[k], n_components)]] \o <<>>

\* lines 126-130: the last elbow of each graph's spectrum, in the order of
\* the graphs; the list is not built when n_components is given.
EmbeddingDimensions(s, embeddings, sel) ==
    IF s.n_components = None
    THEN [k \in 1..Len(embeddings) |->
             LastElbow(embeddings[k].D, sel.first[k])] \o <<>>
    ELSE <<>>

\* best_dimension taken from the last graph of the collection only.
BestDimension_of_last_graph(s, embeddings, sel) ==
    IF s.n_components = None
    THEN EmbeddingDimensions(s, embeddings, sel)[Len(embeddings)]
    ELSE s.n_components.i

\* lines 125-135: best_dimension.
BestDimension(s, embeddings, sel) ==
    IF s.n_components = None
    THEN LET K == Len(embeddings)
             embedding_dimensions == EmbeddingDimensions(s, embeddings, sel)
         IN  CHOOSE d \in {embedding_dimensions[k] : k \in 1..K} :
                \A k \in 1..K : embedding_dimensions[k] <= d
    ELSE s.n_components.i

\* One block of a stacked matrix: the first best_dimension columns of a
\* basis, scaled by the square roots of the singular values when asked.
Block(s, B, D, best_dimension) ==
    IF ~s.scaled
    THEN TakeCols(B, best_dimension)
    ELSE MatMul(TakeCols(B, best_dimension),
                Diag([k \in 1..Min(best_dimension, Len(D)) |-> Sqrt(D[k])] \o <<>>))

\* lines 137-153: the blocks np.hstack is given, left and right.
Blocks(s, embeddings, best_dimension) ==
    [Us |-> [k \in 1..Len(embeddings) |->
                Block(s, embeddings[k].U, embeddings[k].D, best_dimension)] \o <<>>,
     Vs |-> [k \in 1..Len(embeddings) |->
                Block(s, Transpose(embeddings[k].Vt), embeddings[k].D,
                      best_dimension)] \o <<>>]

\* lines 155-172: the second SVD, of the stacked matrices.
SecondStage(s, Us, Vs, sel) ==
    IF \/ SvdFails(Us, SvdRank(Us, s.n_components, sel.left))
       \/ SvdFails(Vs, SvdRank(Vs, s.n_components, sel.right))
    THEN Reduced(Exc("ValueError", "selectSVD"), <<>>, <<>>, TRUE)
    ELSE Reduced(NoExc,
                 selectSVD_U(Us, SvdRank(Us, s.n_components, sel.left)),
                 selectSVD_U(Vs, SvdRank(Vs, s.n_components, sel.right)),
                 TRUE)

\* lines 138-153: np.hstack raises when the blocks differ in height.
Stacked(s, blocks, sel) ==
    IF ~HStackOk(blocks.Us) \/ ~HStackOk(blocks.Vs)
    THEN Reduced(Exc("ValueError", "hstack"), <<>>, <<>>, TRUE)
    ELSE SecondStage(s, HStack(blocks.Us), HStack(blocks.Vs), sel)

Embedded(s, embeddings, sel) ==
    Stacked(s, Blocks(s, embeddings, BestDimension(s, embeddings, sel)), sel)

MultipleASE_reduce_dim(s, graphs, sel) ==
    IF \E k \in 1..Len(graphs) : SvdFails(graphs[k], CeilLog2(s.n_vertices_.i))
    THEN Reduced(Exc("ValueError", "selectSVD"), <<>>, <<>>,
                 ~SvdFails(graphs[1], CeilLog2(s.n_vertices_.i)))
    ELSE Embedded(s, Embeddings(graphs, CeilLog2(s.n_vertices_.i)), sel)

\* ------------------------------------------------------------------------
\* Calls and their outcomes
\* ------------------------------------------------------------------------
AllSymmetric(gs) == \A k \in 1..Len(gs) : is_almost_symmetric(gs[k])

\* A.T @ graphs @ B for a collection of graphs: one product per graph.
ProjectOk(A, gs, B) ==
    \A k \in 1..Len(gs) : Rows(A) = Rows(gs[k]) /\ Cols(gs[k]) = Rows(B)

\* A projection that forgets the left factor: graphs @ B.
Project_right_only(A, gs, B) ==
    Stack([k \in 1..Len(gs) |-> MatMul(gs[k], B)] \o <<>>)

Project(A, gs, B) ==
    Stack([k \in 1..Len(gs) |-> MatMul(MatMul(Transpose(A), gs[k]), B)] \o <<>>)

\* Result of a call: the model after it, the exception raised (or NoExc),
\* the value returned, whether a decomposition was run, and the value of
\* transform's local `scores`.
Outcome(s, raised, ret, svd, scores) ==
    [self |-> s, raised |-> raised, ret |-> ret, svd |-> svd, scores |-> scores]

\* ------------------------------------------------------------------------
\* BaseEmbed._reduce_dim and the fit of a single-graph embedder
\* ------------------------------------------------------------------------
\* base_mase.py lines 96-105: the attributes one decomposition gives.
BaseEmbed_store(s, sym, U, D, Vt) ==
    Outcome([s EXCEPT
               !.n_components_ = PyInt(Len(D)),
               !.singular_values_ = Vector(D),
               !.latent_left_ = Array(MatMul(U, SqrtDiag(D))),
               !.latent_right_ =
                   IF ~sym THEN Array(MatMul(Transpose(Vt), SqrtDiag(D))) ELSE None],
            NoExc, SelfRef, TRUE, None)

\* base_mase.py lines 81-105, r being the rank selectSVD settles on.
BaseEmbed_reduce_dim(s, A, r) ==
    IF SvdFails(A, r)
    THEN Outcome(s, Exc("ValueError", "selectSVD"), None, FALSE, None)
    ELSE BaseEmbed_store(s, is_almost_symmetric(A),
                         selectSVD_U(A, r), selectSVD_D(A, r), selectSVD_Vt(A, r))

\* base_mase.py lines 133-137: the fit of an embedder of one graph imports
\* the graph, calls self._reduce_dim(A) and returns self.
BaseEmbed_fit(s, graph, sel) ==
    BaseEmbed_reduce_dim(s, import_graph(graph.elems[1]),
                         SvdRank(import_graph(graph.elems[1]), s.n_components, sel.left))

\* ------------------------------------------------------------------------
\* MultipleASE.fit, BaseEmbed._fit_transform, MultipleASE.fit_transform,
\* MultipleASE.transform
\* ------------------------------------------------------------------------
\* A store that leaves latent_right_ alone on an undirected fit.
fit_store_keeps_right(s, gs, r) ==
    IF r.raised # NoExc
    THEN Outcome(s, r.raised, None, r.svd, None)
    ELSE Outcome([s EXCEPT
                    !.latent_left_ = Array(r.Uhat),
                    !.latent_right_ =
                        IF ~s.undirected.b THEN Array(r.Vhat) ELSE s.latent_right_,
                    !.scores_ =
                        IF ~s.undirected.b
                        THEN Project(r.Uhat, gs, r.Vhat)
                        ELSE Project(r.Uhat, gs, r.Uhat)],
                 NoExc, SelfRef, TRUE, None)

\* lines 198-206: store the embedding, return self.
fit_store(s, gs, r) ==
    IF r.raised # NoExc
    THEN Outcome(s, r.raised, None, r.svd, None)
    ELSE Outcome([s EXCEPT
                    !.latent_left_ = Array(r.Uhat),
                    !.latent_right_ =
                        IF ~s.undirected.b THEN Array(r.Vhat) ELSE None,
                    !.scores_ =
                        IF ~s.undirected.b
                        THEN Project(r.Uhat, gs, r.Vhat)
                        ELSE Project(r.Uhat, gs, r.Uhat)],
                 NoExc, SelfRef, TRUE, None)

\* lines 196-197: embed.
fit_embed(s, gs, sel) == fit_store(s, gs, MultipleASE_reduce_dim(s, gs, sel))

\* lines 193-195: self.undirected is set before anything is embedded.
fit_checked(c, sel) ==
    IF c.raised # NoExc
    THEN Outcome(c.self, c.raised, None, FALSE, None)
    ELSE fit_embed([c.self EXCEPT !.undirected = PyBool(AllSymmetric(c.out.elems))],
                   c.out.elems, sel)

fit(s, graphs, sel) == fit_checked(_check_input_graphs(s, graphs), sel)

\* line 147: return self.scores_
fit_transform_return(f) ==
    IF f.raised # NoExc
    THEN f
    ELSE IF f.self.scores_ = Unset
    THEN Outcome(f.self, Exc("AttributeError", "_fit_transform"), None, f.svd, None)
    ELSE Outcome(f.self, NoExc, f.self.scores_, f.svd, None)

\* line 141: self.fit(graph) is the fit of the object's own class.
self_fit(s, graph, sel) ==
    IF s.cls = "MultipleASE" THEN fit(s, graph, sel) ELSE BaseEmbed_fit(s, graph, sel)

_fit_transform(s, graph, sel) == fit_transform_return(self_fit(s, graph, sel))

fit_transform(s, graphs, sel) == _fit_transform(s, graphs, sel)

BaseEmbed_fit_transform(s, graph, sel) == _fit_transform(s, graph, sel)

\* line 266: the local `scores` is dropped and the model is fitted again.
transform_return(scores, f) == [f EXCEPT !.scores = scores]

\* lines 257-266, the model and the new graphs being of one directedness.
transform_project(c, left, right, sel) ==
    \* line 258: AttributeError is not a NameError, so it propagates
    IF left = Unset \/ right = Unset
    THEN Outcome(c.self, Exc("AttributeError", "transform"), None, FALSE, None)
    \* lines 263, 265: the product raises when an operand is None or the
    \* shapes do not match
    ELSE IF right = None
    THEN Outcome(c.self, Exc("ValueError", "matmul"), None, FALSE, None)
    ELSE IF ~ProjectOk(left.m, c.out.elems, right.m)
    THEN Outcome(c.self, Exc("ValueError", "matmul"), None, FALSE, None)
    ELSE transform_return(Project(left.m, c.out.elems, right.m),
                          _fit_transform(c.self, c.out, sel))

\* A transform that does not compare the directedness of the new graphs
\* with the model's.
transform_checked_without_comparison(c, sel) ==
    IF c.raised # NoExc
    THEN Outcome(c.self, c.raised, None, FALSE, None)
    ELSE IF c.self.undirected = Unset
    THEN Outcome(c.self, Exc("AttributeError", "transform"), None, FALSE, None)
    ELSE transform_project(c, c.self.latent_left_,
                           IF ~c.self.undirected.b
                           THEN c.self.latent_right_
                           ELSE c.self.latent_left_,
                           sel)

\* lines 253-256.
transform_checked(c, sel) ==
    IF c.raised # NoExc
    THEN Outcome(c.self, c.raised, None, FALSE, None)
    \* line 255: reading an attribute that was never assigned
    ELSE IF c.self.undirected = Unset
    THEN Outcome(c.self, Exc("AttributeError", "transform"), None, FALSE, None)
    ELSE IF c.self.undirected # PyBool(AllSymmetric(c.out.elems))
    THEN Outcome(c.self, Exc("TypeError", "transform"), None, FALSE, None)
    ELSE transform_project(c, c.self.latent_left_,
                           IF ~c.self.undirected.b
                           THEN c.self.latent_right_
                           ELSE c.self.latent_left_,
                           sel)

transform(s, graphs, sel) == transform_checked(_check_input_graphs(s, graphs), sel)

\* ------------------------------------------------------------------------
\* ClassicalMDS (src/embed/mds.py)
\* ------------------------------------------------------------------------
\* utils.is_symmetric (outside src/): the matrix equals its transpose.
is_symmetric(X) == X = Transpose(X)

\* An array the code computes whose entries are not integers: what it is,
\* at what rank, and the integer matrix it is computed from.
Computed(what, rank, of) == [t |-> "ndarray", what |-> what, rank |-> rank, of |-> of]

\* X.shape[0]
n_samples(X) == IF X.ndim = 2 THEN Rows(X.elems[1]) ELSE Len(X.elems)

RECURSIVE Flatten(_)
Flatten(M) == IF M = <<>> THEN <<>> ELSE M[1] \o Flatten(Tail(M))

\* The samples of X along its first axis, each as one vector.
Samples(X) ==
    IF X.ndim = 2
    THEN X.elems[1]
    ELSE [i \in 1..Len(X.elems) |-> Flatten(X.elems[i])] \o <<>>

\* lines 103-131: the pairwise distances between the samples, squared (the
\* distances themselves are their square roots).
SquaredDistances(X) ==
    LET v == Samples(X)
        e(i, j) == SumSeq([k \in 1..Len(v[i]) |->
                             (v[i][k] - v[j][k]) * (v[i][k] - v[j][k])])
    IN  Matrix(Len(v), Len(v), e)

\* dissimilarity_matrix ** 2
Squared(M) == LET e(i, j) == M[i][j] * M[i][j] IN Matrix(Rows(M), Cols(M), e)

\* lines 22-39: the centering matrix I - (1/n) 11^T, times n.
_get_centering_matrix(n) == LET e(i, j) == IF i = j THEN n - 1 ELSE 0 - 1 IN Matrix(n, n, e)

\* line 181: B = J @ (dissimilarity_matrix ** 2) @ J * -0.5, times 2 n^2.
DoubleCentered(D2) ==
    LET J == _get_centering_matrix(Rows(D2))
        M == MatMul(MatMul(J, D2), J)
        e(i, j) == 0 - M[i][j]
    IN  Matrix(Rows(D2), Rows(D2), e)

\* lines 183-196: decompose B at rank r and store the result.
MDS_embed(s, dissimilarity_matrix, B, r) ==
    IF SvdFails(B, r)
    THEN Outcome(s, Exc("ValueError", "selectSVD"), None, FALSE, None)
    ELSE Outcome([s EXCEPT
                    !.n_components_ = PyInt(r),
                    !.components_ = Computed("selectSVD(B).U", r, B),
                    !.singular_values_ = Computed("selectSVD(B).D ** 0.5", r, B),
                    !.dissimilarity_matrix_ = dissimilarity_matrix],
                 NoExc, SelfRef, TRUE, None)

\* lines 160-181: the dissimilarity matrix of X.
MDS_dissimilarity(s, X, r) ==
    IF s.dissimilarity = "precomputed"
    THEN IF X.ndim # 2
         THEN Outcome(s, Exc("ValueError", "check_array"), None, FALSE, None)
         ELSE IF ~is_symmetric(X.elems[1])
         THEN Outcome(s, Exc("ValueError", "ClassicalMDS.fit"), None, FALSE, None)
         ELSE MDS_embed(s, Array(X.elems[1]), DoubleCentered(Squared(X.elems[1])), r)
    ELSE MDS_embed(s, Computed("sqrt", 0, SquaredDistances(X)),
                   DoubleCentered(SquaredDistances(X)), r)

\* lines 133-198: ClassicalMDS.fit, elbow being the rank the dimension
\* selector picks when n_components is None.
MDS_fit(s, X, elbow) ==
    IF X.kind # "ndarray"
    THEN Outcome(s, Exc("ValueError", "ClassicalMDS.fit"), None, FALSE, None)
    ELSE IF s.n_components # None /\ s.n_components.i > n_samples(X)
    THEN Outcome(s, Exc("ValueError", "ClassicalMDS.fit"), None, FALSE, None)
    ELSE MDS_dissimilarity(s, X, IF s.n_components = None THEN elbow
                                 ELSE s.n_components.i)

\* lines 217-221: X_new = self.components_ @ np.diag(self.singular_values_)
MDS_embedded(f) ==
    IF f.raised # NoExc
    THEN f
    ELSE [f EXCEPT !.ret = Computed("components_ @ np.diag(singular_values_)",
                                    f.self.n_components_.i, f.self.components_.of)]

\* lines 200-221: ClassicalMDS.fit_transform
MDS_fit_transform(s, X, elbow) == MDS_embedded(MDS_fit(s, X, elbow))

\* lines 248-250: the model is fitted again, X_new is computed and the
\* method ends without a return statement.
MDS_transform_refit(f) == IF f.raised # NoExc THEN f ELSE [f EXCEPT !.ret = None]

\* lines 222-250: ClassicalMDS.transform.  Reading an attribute that was
\* never assigned raises AttributeError, which `except ValueError` lets
\* through.
MDS_transform(s, X, elbow) ==
    IF s.components_ = Unset
    THEN Outcome(s, Exc("AttributeError", "ClassicalMDS.transform"), None, FALSE, None)
    ELSE MDS_transform_refit(MDS_fit(s, X, elbow))

\* lines 84-100: ClassicalMDS.__init__
ConstructMDS(n_components, dissimilarity) ==
    [cls |-> "ClassicalMDS",
     n_components |-> n_components,
     dissimilarity |-> dissimilarity,
     n_components_ |-> Unset,
     components_ |-> Unset,
     singular_values_ |-> Unset,
     dissimilarity_matrix_ |-> Unset]

\* What a caller may pass as X: a 2-d array, a 3-d array, something else.
MDSInputs == GraphInputs \cup {Arg("ndarray", 3, <<A3, A3>>)} \cup OtherInputs

\* The ranks the dimension selector can pick for X when n_components is
\* None.
MDSElbows(s, X) ==
    IF s.n_components # None \/ X.kind # "ndarray"
    THEN {1}
    ELSE 1..CeilLog2(n_samples(X))

\* ------------------------------------------------------------------------
\* The object and the calls made on it
\* ------------------------------------------------------------------------
\* __init__ stores the parameters and nothing else.  cls is the class of
\* the object: MultipleASE, or BaseEmbed for an embedder of one graph
\* (which has no use for `scaled`).
Construct(cls, n_components, scaled) ==
    [cls |-> cls,
     n_components |-> n_components,
     scaled |-> scaled,
     n_graphs_ |-> Unset,
     n_vertices_ |-> Unset,
     undirected |-> Unset,
     latent_left_ |-> Unset,
     latent_right_ |-> Unset,
     scores_ |-> Unset,
     n_components_ |-> Unset,
     singular_values_ |-> Unset]

NComponentsChoices == {None} \cup {PyInt(d) : d \in 1..MaxVertices}

\* The last call: the method, its argument, the object as it was when the
\* call began, the exception raised, the value returned, whether a
\* decomposition was run, and the local variables the properties look at
\* (transform's `scores`; best_dimension, Us and Vs of _reduce_dim).
Call(op, arg, before, raised, ret, svd, scores) ==
    [op |-> op, arg |-> arg, before |-> before, raised |-> raised, ret |-> ret,
     svd |-> svd, scores |-> scores]

\* No call is in progress and the caller holds no result.
Idle == Call("idle", Arg("none", 0, <<>>), None, NoExc, None, FALSE, None)

\* No thread shares the object: its methods are called one after another.
NoThreads == [model |-> None, t |-> <<>>]

Init ==
    /\ \/ \E n_components \in NComponentsChoices, scaled \in BOOLEAN :
             self = Construct("MultipleASE", n_components, scaled)
       \/ \E n_components \in NComponentsChoices :
             self = Construct("BaseEmbed", n_components, FALSE)
       \/ \E n_components \in NComponentsChoices,
             dissimilarity \in {"euclidean", "precomputed"} :
             self = ConstructMDS(n_components, dissimilarity)
    /\ call = Idle
    /\ threads = NoThreads

\* The answers the dimension selector can give while `graphs` is fitted.
Selections(s, graphs) ==
    IF s.n_components # None \/ Len(graphs.elems) = 0
    THEN {Selection(<<>>, 1, 1)}
    ELSE LET n == Rows(graphs.elems[1])
         IN  {Selection(first, left, right) :
                 first \in [1..Len(graphs.elems) -> 1..CeilLog2(n)],
                 left \in 1..CeilLog2(n), right \in 1..CeilLog2(n)}

\* A call ends: the object is as the method left it and the caller holds
\* the outcome.
Ends(op, graphs, r) ==
    /\ self' = r.self
    /\ call' = Call(op, graphs, self, r.raised, r.ret, r.svd, r.scores)
    /\ UNCHANGED threads

Fit ==
    /\ call.op = "idle"
    /\ self.cls = "MultipleASE"
    /\ \E graphs \in Inputs : \E sel \in Selections(self, graphs) :
          Ends("fit", graphs, fit(self, graphs, sel))

FitTransform ==
    /\ call.op = "idle"
    /\ self.cls = "MultipleASE"
    /\ \E graphs \in Inputs : \E sel \in Selections(self, graphs) :
          Ends("fit_transform", graphs, fit_transform(self, graphs, sel))

Transform ==
    /\ call.op = "idle"
    /\ self.cls = "MultipleASE"
    /\ \E graphs \in Inputs : \E sel \in Selections(self, graphs) :
          Ends("transform", graphs, transform(self, graphs, sel))

BaseEmbedFit ==
    /\ call.op = "idle"
    /\ self.cls = "BaseEmbed"
    /\ \E graph \in GraphInputs : \E sel \in Selections(self, graph) :
          Ends("BaseEmbed.fit", graph, BaseEmbed_fit(self, graph, sel))

BaseEmbedFitTransform ==
    /\ call.op = "idle"
    /\ self.cls = "BaseEmbed"
    /\ \E graph \in GraphInputs : \E sel \in Selections(self, graph) :
          Ends("BaseEmbed.fit_transform", graph,
               BaseEmbed_fit_transform(self, graph, sel))

MDSFit ==
    /\ call.op = "idle"
    /\ self.cls = "ClassicalMDS"
    /\ \E X \in MDSInputs : \E elbow \in MDSElbows(self, X) :
          Ends("ClassicalMDS.fit", X, MDS_fit(self, X, elbow))

MDSFitTransform ==
    /\ call.op = "idle"
    /\ self.cls = "ClassicalMDS"
    /\ \E X \in MDSInputs : \E elbow \in MDSElbows(self, X) :
          Ends("ClassicalMDS.fit_transform", X, MDS_fit_transform(self, X, elbow))

MDSTransform ==
    /\ call.op = "idle"
    /\ self.cls = "ClassicalMDS"
    /\ \E X \in MDSInputs : \E elbow \in MDSElbows(self, X) :
          Ends("ClassicalMDS.transform", X, MDS_transform(self, X, elbow))

\* The caller takes the result (or the exception); the object is then
\* ready for the next call.
Return ==
    /\ call.op # "idle"
    /\ call' = Idle
    /\ UNCHANGED <<self, threads>>

Next ==
    \/ Fit
    \/ FitTransform
    \/ Transform
    \/ BaseEmbedFit
    \/ BaseEmbedFitTransform
    \/ MDSFit
    \/ MDSFitTransform
    \/ MDSTransform
    \/ Return

Spec == Init /\ [][Next]_vars

\* ------------------------------------------------------------------------
\* Concurrent MultipleASE.transform calls on one fitted object
\* ------------------------------------------------------------------------
\* The threads interleave between attribute reads and writes of the object
\* (the interpreter switches threads between bytecodes); what a thread
\* computes on its local variables is its own.
Threads == {"a", "b"}

\* The collections the threads transform and the object was fitted on.
S4 == << <<9, 0>>, <<0, 1>> >>

ConcurrentInputs ==
    {Arg("list", 1, <<S1, S1>>), Arg("tuple", 1, <<S4, S4>>), Arg("list", 1, <<A1, A1>>)}

\* The local variables of transform and of the fit it calls.
Locals(out, undirected, left, red) ==
    [out |-> out, undirected |-> undirected, left |-> left, red |-> red]

Thread(pc, graphs, sel, loc, raised, ret) ==
    [pc |-> pc, graphs |-> graphs, sel |-> sel, loc |-> loc, raised |-> raised,
     ret |-> ret]

\* A thread about to call transform(graphs).
Start(graphs, sel) ==
    Thread("check", graphs, sel,
           Locals(graphs, FALSE, None, Reduced(NoExc, <<>>, <<>>, FALSE)),
           NoExc, None)

\* The objects a completed fit leaves.
FitOutcomes ==
    UNION {{fit(Construct("MultipleASE", n_components, scaled), g, sel) :
               sel \in Selections(Construct("MultipleASE", n_components, scaled), g)} :
           n_components \in NComponentsChoices, scaled \in BOOLEAN,
           g \in ConcurrentInputs}

FittedModels == {f.self : f \in {o \in FitOutcomes : o.raised = NoExc}}

Starts(s) == UNION {{Start(g, sel) : sel \in Selections(s, g)} : g \in ConcurrentInputs}

InitConcurrent ==
    /\ self \in FittedModels
    /\ call = Idle
    /\ \E ts \in [Threads -> Starts(self)] : threads = [model |-> self, t |-> ts]

\* Thread t goes on to pc with its local variables loc; the object becomes s.
Moves(t, s, pc, loc) ==
    /\ self' = s
    /\ threads' = [threads EXCEPT !.t[t].pc = pc, !.t[t].loc = loc]
    /\ UNCHANGED call

\* The call of thread t ends with the exception e.
Raises(t, s, e) ==
    /\ self' = s
    /\ threads' = [threads EXCEPT !.t[t].pc = "done", !.t[t].raised = e]
    /\ UNCHANGED call

At(t, pc) == threads.model # None /\ threads.t[t].pc = pc

\* mase.py lines 252-254.
TransformCheck(t) ==
    /\ At(t, "check")
    /\ LET th == threads.t[t]
           c == _check_input_graphs(self, th.graphs)
       IN  IF c.raised # NoExc
           THEN Raises(t, c.self, c.raised)
           ELSE Moves(t, c.self, "compare",
                      [th.loc EXCEPT !.out = c.out,
                                     !.undirected = AllSymmetric(c.out.elems)])

\* mase.py lines 255-256.
TransformCompare(t) ==
    /\ At(t, "compare")
    /\ LET th == threads.t[t]
       IN  IF self.undirected = Unset
           THEN Raises(t, self, Exc("AttributeError", "transform"))
           ELSE IF self.undirected # PyBool(th.loc.undirected)
           THEN Raises(t, self, Exc("TypeError", "transform"))
           ELSE Moves(t, self, "guard", th.loc)

\* mase.py lines 257-260.
TransformGuard(t) ==
    /\ At(t, "guard")
    /\ IF self.latent_left_ = Unset
       THEN Raises(t, self, Exc("AttributeError", "transform"))
       ELSE Moves(t, self, "left", threads.t[t].loc)

\* mase.py lines 263, 265: the left operand is read.
TransformLeft(t) ==
    /\ At(t, "left")
    /\ Moves(t, self, "right", [threads.t[t].loc EXCEPT !.left = self.latent_left_])

\* mase.py lines 263, 265: the right operand is read and the local `scores`
\* computed.
TransformRight(t) ==
    /\ At(t, "right")
    /\ LET th == threads.t[t]
           right == IF ~th.loc.undirected THEN self.latent_right_ ELSE self.latent_left_
       IN  IF right = Unset
           THEN Raises(t, self, Exc("AttributeError", "transform"))
           ELSE IF right = None
           THEN Raises(t, self, Exc("ValueError", "matmul"))
           ELSE IF ~ProjectOk(th.loc.left.m, th.loc.out.elems, right.m)
           THEN Raises(t, self, Exc("ValueError", "matmul"))
           ELSE Moves(t, self, "fit_check", th.loc)

\* mase.py line 266, base_mase.py line 141, mase.py line 191.
FitCheck(t) ==
    /\ At(t, "fit_check")
    /\ LET th == threads.t[t]
           c == _check_input_graphs(self, th.loc.out)
       IN  IF c.raised # NoExc
           THEN Raises(t, c.self, c.raised)
           ELSE Moves(t, c.self, "fit_flag", [th.loc EXCEPT !.out = c.out])

\* mase.py lines 193-195.
FitFlag(t) ==
    /\ At(t, "fit_flag")
    /\ LET th == threads.t[t]
           undirected == AllSymmetric(th.loc.out.elems)
       IN  Moves(t, [self EXCEPT !.undirected = PyBool(undirected)], "fit_reduce",
                 [th.loc EXCEPT !.undirected = undirected])

\* mase.py line 197: _reduce_dim reads self.n_vertices_.
FitReduce(t) ==
    /\ At(t, "fit_reduce")
    /\ LET th == threads.t[t]
           red == MultipleASE_reduce_dim(self, th.loc.out.elems, th.sel)
       IN  IF red.raised # NoExc
           THEN Raises(t, self, red.raised)
           ELSE Moves(t, self, "fit_left", [th.loc EXCEPT !.red = red])

\* mase.py line 198.
FitLeft(t) ==
    /\ At(t, "fit_left")
    /\ Moves(t, [self EXCEPT !.latent_left_ = Array(threads.t[t].loc.red.Uhat)],
             "fit_right", threads.t[t].loc)

\* mase.py lines 199-200, 203.
FitRight(t) ==
    /\ At(t, "fit_right")
    /\ LET loc == threads.t[t].loc
       IN  Moves(t, [self EXCEPT !.latent_right_ =
                        IF ~loc.undirected THEN Array(loc.red.Vhat) ELSE None],
                 "fit_scores", loc)

\* mase.py lines 201, 204.
FitScores(t) ==
    /\ At(t, "fit_scores")
    /\ LET loc == threads.t[t].loc
       IN  Moves(t, [self EXCEPT !.scores_ =
                        IF ~loc.undirected
                        THEN Project(loc.red.Uhat, loc.out.elems, loc.red.Vhat)
                        ELSE Project(loc.red.Uhat, loc.out.elems, loc.red.Uhat)],
                 "fit_return", loc)

\* mase.py line 206, base_mase.py line 147: return self.scores_
FitTransformReturn(t) ==
    /\ At(t, "fit_return")
    /\ IF self.scores_ = Unset
       THEN Raises(t, self, Exc("AttributeError", "_fit_transform"))
       ELSE /\ threads' = [threads EXCEPT !.t[t].pc = "done",
                                          !.t[t].ret = self.scores_]
            /\ UNCHANGED <<self, call>>

NextConcurrent ==
    \/ \E t \in Threads : TransformCheck(t)
    \/ \E t \in Threads : TransformCompare(t)
    \/ \E t \in Threads : TransformGuard(t)
    \/ \E t \in Threads : TransformLeft(t)
    \/ \E t \in Threads : TransformRight(t)
    \/ \E t \in Threads : FitCheck(t)
    \/ \E t \in Threads : FitFlag(t)
    \/ \E t \in Threads : FitReduce(t)
    \/ \E t \in Threads : FitLeft(t)
    \/ \E t \in Threads : FitRight(t)
    \/ \E t \in Threads : FitScores(t)
    \/ \E t \in Threads : FitTransformReturn(t)

SpecConcurrent == InitConcurrent /\ [][NextConcurrent]_vars

\* ------------------------------------------------------------------------
\* MultipleASE._reduce_dim on its own
\* ------------------------------------------------------------------------
\* fit has validated the collection and set self.undirected (mase.py line
\* 195); _reduce_dim is about to be called on the converted collection.
InitReduceDim ==
    /\ \E n_components \in NComponentsChoices, scaled \in BOOLEAN, graphs \in Inputs :
          LET c == _check_input_graphs(Construct("MultipleASE", n_components, scaled),
                                       graphs)
          IN  /\ c.raised = NoExc
              /\ self = [c.self EXCEPT !.undirected = PyBool(AllSymmetric(c.out.elems))]
              /\ call = Call("_check_input_graphs", c.out, c.self, NoExc, None, FALSE,
                             None)
    /\ threads = NoThreads

\* mase.py lines 125-153: embedding_dimensions, best_dimension and the two
\* stacked matrices; stacked is FALSE when np.hstack raised, the blocks
\* differing in height.
StackedMatrices(s, blocks, best_dimension, embedding_dimensions) ==
    IF ~HStackOk(blocks.Us) \/ ~HStackOk(blocks.Vs)
    THEN [embedding_dimensions |-> embedding_dimensions,
          best_dimension |-> best_dimension,
          stacked |-> FALSE, Us |-> <<>>, Vs |-> <<>>]
    ELSE [embedding_dimensions |-> embedding_dimensions,
          best_dimension |-> best_dimension,
          stacked |-> TRUE,
          Us |-> HStack(blocks.Us),
          Vs |-> HStack(blocks.Vs)]

StackedOf(s, embeddings, best_dimension, embedding_dimensions) ==
    StackedMatrices(s, Blocks(s, embeddings, best_dimension), best_dimension,
                    embedding_dimensions)

\* The local variables embedding_dimensions, best_dimension, Us and Vs of
\* _reduce_dim as they stand when lines 125-153 are left, None when the
\* first stage raised before.
ReduceDimLocals(s, graphs, sel) ==
    IF \E k \in 1..Len(graphs) : SvdFails(graphs[k], CeilLog2(s.n_vertices_.i))
    THEN None
    ELSE StackedOf(s, Embeddings(graphs, CeilLog2(s.n_vertices_.i)),
                   BestDimension(s, Embeddings(graphs, CeilLog2(s.n_vertices_.i)), sel),
                   EmbeddingDimensions(s, Embeddings(graphs, CeilLog2(s.n_vertices_.i)),
                                       sel))

\* The call ends: what it raised, the pair it returned, its locals.
ReduceDimEnds(red, locals) ==
    /\ call' = Call("_reduce_dim", call.arg, self, red.raised,
                    IF red.raised = NoExc
                    THEN Tuple(<<Array(red.Uhat), Array(red.Vhat)>>)
                    ELSE None,
                    red.svd, locals)
    /\ UNCHANGED <<self, threads>>

ReduceDim ==
    /\ call.op = "_check_input_graphs"
    /\ \E sel \in Selections(self, call.arg) :
          ReduceDimEnds(MultipleASE_reduce_dim(self, call.arg.elems, sel),
                        ReduceDimLocals(self, call.arg.elems, sel))

NextReduceDim == ReduceDim

SpecReduceDim == InitReduceDim /\ [][NextReduceDim]_vars

\* ------------------------------------------------------------------------
\* Vocabulary of the properties
\* ------------------------------------------------------------------------
\* fit has completed on the object at least once: latent_left_ is assigned
\* by fit alone, and nothing after that assignment can raise.
Fitted(s) == s.latent_left_ # Unset

\* The collection gets through _check_input_graphs.
PassesValidation(graphs) == _check_input_graphs(call.before, graphs).raised = NoExc

\* The error input validation raises.
InvalidInput(e) ==
    e # NoExc /\ e.site = "_check_input_graphs" /\ e.type \in {"ValueError", "TypeError"}

\* The error transform raises on a directedness mismatch (line 256).
DirectednessMismatch == Exc("TypeError", "transform")

\* The error transform means to raise on an unfitted model (line 260).
NotFittedError == Exc("NameError", "transform")

\* A list or tuple of two or more graphs that are not all of one shape.
Ragged(graphs) ==
    /\ graphs.kind \in {"list", "tuple"}
    /\ Len(graphs.elems) >= 2
    /\ \E k \in 1..Len(graphs.elems) : Rows(graphs.elems[k]) # Rows(graphs.elems[1])

\* Fewer than two graphs, an array that is not 3-dimensional, or no
\* collection at all.
NoCollection(graphs) ==
    \/ graphs.kind \in {"list", "tuple"} /\ Len(graphs.elems) < 2
    \/ graphs.kind = "ndarray" /\ (graphs.ndim # 3 \/ Len(graphs.elems) < 2)
    \/ graphs.kind \notin {"list", "tuple", "ndarray"}

\* The fit inside a fit_transform call went through: nothing was raised,
\* or only the return statement after it raised.
FitCompleted ==
    call.raised = NoExc \/ call.raised = Exc("AttributeError", "_fit_transform")

\* The projection of a collection onto the basis a fitted model holds.
ProjectionOnto(s, gs) ==
    IF s.undirected.b
    THEN Project(s.latent_left_.m, gs, s.latent_left_.m)
    ELSE Project(s.latent_left_.m, gs, s.latent_right_.m)

\* ------------------------------------------------------------------------
\* Properties
\* ------------------------------------------------------------------------
\* C1: transform on a fitted model leaves latent_left_, latent_right_,
\* scores_ and the undirected flag as they were before the call.
C1_TransformKeepsModel ==
    (call.op = "transform" /\ Fitted(call.before) /\ call.raised = NoExc)
    => /\ self.latent_left_ = call.before.latent_left_
       /\ self.latent_right_ = call.before.latent_right_
       /\ self.scores_ = call.before.scores_
       /\ self.undirected = call.before.undirected

\* C2: transform returns the projection of the new graphs onto the basis
\* the model held before the call.
C2_TransformReturnsProjection ==
    (call.op = "transform" /\ call.raised = NoExc)
    => call.ret = ProjectionOnto(call.before, call.arg.elems)

\* C3: transform on a model that was never fitted raises the not-fitted
\* error, whatever valid collection it is given.
C3_TransformUnfittedRaisesNotFitted ==
    (call.op = "transform" /\ ~Fitted(call.before) /\ PassesValidation(call.arg))
    => call.raised = NotFittedError

\* C4: fit on a list or tuple of graphs of unequal shapes is rejected by
\* input validation, before any decomposition is run.
C4_FitRejectsRaggedInValidation ==
    (call.op = "fit" /\ Ragged(call.arg))
    => InvalidInput(call.raised) /\ ~call.svd

\* C5: fit on fewer than two graphs, on an array that is not 3-dimensional
\* or on an object that is no collection raises the invalid-input error and
\* runs no decomposition.
C5_FitRejectsNoCollection ==
    (call.op = "fit" /\ NoCollection(call.arg))
    => InvalidInput(call.raised) /\ ~call.svd

C5_Witness ==
    /\ call.op = "fit"
    /\ call.arg.kind = "ndarray" /\ call.arg.ndim = 3 /\ Len(call.arg.elems) = 1
    /\ call.raised = Exc("ValueError", "_check_input_graphs")

\* C6: a fit or transform call that ends in an error leaves every
\* attribute of the model as it was before the call.
C6_FailedCallKeepsModel ==
    (call.op \in {"fit", "transform"} /\ call.raised # NoExc)
    => self = call.before

\* C7: transform on a fitted model, given a collection that gets through
\* validation, raises the directedness-mismatch error exactly when the
\* collection's directedness differs from the model's undirected flag.
C7_MismatchIffDirectednessDiffers ==
    (call.op = "transform" /\ Fitted(call.before) /\ PassesValidation(call.arg))
    => (call.raised = DirectednessMismatch
        <=> call.before.undirected.b # AllSymmetric(call.arg.elems))

C7_Witness ==
    /\ call.op = "transform"
    /\ Fitted(call.before)
    /\ call.before.undirected.b
    /\ ~AllSymmetric(call.arg.elems)
    /\ call.raised = DirectednessMismatch

\* C8: after a successful fit n_components_ and singular_values_ are set,
\* as are latent_left_, latent_right_ (possibly None) and scores_.
C8_FitSetsEveryOutput ==
    (call.op = "fit" /\ call.raised = NoExc)
    => /\ self.n_components_ # Unset
       /\ self.singular_values_ # Unset
       /\ self.latent_left_ # Unset
       /\ self.latent_right_ # Unset
       /\ self.scores_ # Unset

\* C9: after a successful fit, whatever was fitted before, the undirected
\* flag tells whether every graph just fitted is near-symmetric, and
\* latent_right_ is None exactly when the flag is true.
C9_FlagAndRightFollowLastFit ==
    (call.op \in {"fit", "fit_transform"} /\ call.raised = NoExc)
    => /\ self.undirected = PyBool(AllSymmetric(call.arg.elems))
       /\ (self.latent_right_ = None <=> self.undirected.b)

\* An undirected fit on a model that held a directed embedding.
C9_Witness ==
    /\ call.op = "fit"
    /\ call.raised = NoExc
    /\ Fitted(call.before)
    /\ ~call.before.undirected.b
    /\ call.before.latent_right_ # None
    /\ self.undirected.b
    /\ self.latent_right_ = None

\* C10: fit_transform returns the latent positions: latent_left_ when the
\* input is undirected, the pair (latent_left_, latent_right_) when it is
\* directed.
C10_FitTransformReturnsLatent ==
    (call.op \in {"fit_transform", "BaseEmbed.fit_transform"} /\ FitCompleted)
    => /\ call.raised = NoExc
       /\ call.ret = IF self.latent_right_ = None
                     THEN self.latent_left_
                     ELSE Tuple(<<self.latent_left_, self.latent_right_>>)

\* What the call of thread t gives when it runs alone on the object as it
\* was fitted.
Alone(t) == transform(threads.model, threads.t[t].graphs, threads.t[t].sel)

AllDone == threads.model # None /\ \A t \in Threads : threads.t[t].pc = "done"

\* Every call ended as it ends alone.
EndsAsAlone ==
    \A t \in Threads :
       /\ threads.t[t].raised = Alone(t).raised
       /\ threads.t[t].ret = Alone(t).ret

\* C11: when two transform calls have run concurrently on a fitted model,
\* under any interleaving, each has returned what it returns alone and the
\* model's attributes are as they were before the calls.
C11_ConcurrentTransformsAreSafe ==
    AllDone => EndsAsAlone /\ self = threads.model

\* The returned values alone: each call returned what it returns alone.
ConcurrentTransformsReturnAsAlone == AllDone => EndsAsAlone

\* The error ClassicalMDS.transform means to give on an unfitted model
\* (mds.py line 246).
MDSNotFitted == Exc("RuntimeError", "ClassicalMDS.transform")

\* C12: ClassicalMDS.transform on a model on which fit has never completed
\* raises the not-fitted error -- it does not return, raises nothing else
\* and leaves the model unfitted.
C12_MDSTransformUnfittedRaisesNotFitted ==
    (call.op = "ClassicalMDS.transform" /\ call.before.components_ = Unset)
    => /\ call.raised = MDSNotFitted
       /\ self = call.before

\* The stacked matrix M has n rows and width columns.
HasShape(M, n, width) == Rows(M) = n /\ Cols(M) = width

\* C13: the stacked left and right matrices _reduce_dim hands to the
\* second-stage SVD have n rows and exactly K * best_dimension columns.
C13_StackedShapeIsKTimesBestDimension ==
    (call.op = "_reduce_dim" /\ call.scores # None /\ call.scores.stacked)
    => /\ HasShape(call.scores.Us, self.n_vertices_.i,
                   self.n_graphs_.i * call.scores.best_dimension)
       /\ HasShape(call.scores.Vs, self.n_vertices_.i,
                   self.n_graphs_.i * call.scores.best_dimension)

\* The width the code gives: a slice keeps the columns there are, and the
\* first-stage bases have ceil(log2(n)) of them.
StackedShapeIsClipped ==
    (call.op = "_reduce_dim" /\ call.scores # None /\ call.scores.stacked)
    => LET width == self.n_graphs_.i * Min(call.scores.best_dimension,
                                           CeilLog2(self.n_vertices_.i))
       IN  /\ HasShape(call.scores.Us, self.n_vertices_.i, width)
           /\ HasShape(call.scores.Vs, self.n_vertices_.i, width)

\* Every matrix of the stack has the given shape.
AllHaveShape(stack, rows, cols) ==
    \A k \in 1..Len(stack) : HasShape(stack[k], rows, cols)

\* The basis the right side of the scores is projected on.
RightBasis(s) == IF s.undirected.b THEN s.latent_left_.m ELSE s.latent_right_.m

\* C14: after a successful fit on K graphs of n vertices scores_ holds K
\* matrices, each with as many rows as latent_left_ has columns and as many
\* columns as latent_right_ (latent_left_ when undirected) has columns, and
\* latent_left_ has n rows; with n_components = d given and an undirected
\* input latent_left_ is n x d, scores_ is K x d x d and latent_right_ is
\* None.
C14_FittedShapesAreConsistent ==
    (call.op = "fit" /\ call.raised = NoExc)
    => /\ Len(self.scores_.g) = Len(call.arg.elems)
       /\ AllHaveShape(self.scores_.g, Cols(self.latent_left_.m), Cols(RightBasis(self)))
       /\ Rows(self.latent_left_.m) = Rows(call.arg.elems[1])
       /\ (self.n_components # None /\ self.undirected.b)
          => /\ HasShape(self.latent_left_.m, Rows(call.arg.elems[1]),
                         self.n_components.i)
             /\ AllHaveShape(self.scores_.g, self.n_components.i, self.n_components.i)
             /\ self.latent_right_ = None

\* An undirected fit of two graphs of three vertices with n_components = 2.
C14_Witness ==
    /\ call.op = "fit"
    /\ call.raised = NoExc
    /\ self.n_components = PyInt(2)
    /\ self.undirected.b
    /\ HasShape(self.latent_left_.m, 3, 2)
    /\ Len(self.scores_.g) = 2
    /\ AllHaveShape(self.scores_.g, 2, 2)

\* _reduce_dim has chosen best_dimension (mase.py line 135 is passed).
DimensionChosen == call.op = "_reduce_dim" /\ call.scores # None

\* d is the largest entry of the list dims.
IsMaxOf(d, dims) ==
    /\ \E k \in 1..Len(dims) : dims[k] = d
    /\ \A k \in 1..Len(dims) : dims[k] <= d

\* C15: best_dimension equals n_components whenever one is given, and the
\* dimension selector is then not consulted; otherwise the selector is
\* consulted once per graph and best_dimension is the maximum of the last
\* elbows it returned.
C15_BestDimensionIsGivenOrMaxElbow ==
    DimensionChosen
    => IF self.n_components # None
       THEN /\ call.scores.best_dimension = self.n_components.i
            /\ call.scores.embedding_dimensions = <<>>
       ELSE /\ Len(call.scores.embedding_dimensions) = self.n_graphs_.i
            /\ IsMaxOf(call.scores.best_dimension, call.scores.embedding_dimensions)

\* Automatic selection on two graphs whose last elbows differ, the larger
\* being the first graph's.
C15_Witness ==
    /\ DimensionChosen
    /\ self.n_components = None
    /\ call.scores.embedding_dimensions = <<2, 1>>
    /\ call.scores.best_dimension = 2

====
